---- MODULE Spec2Model ----
(***************************************************************************)
(* Exact string matching: Naive, RabinKarp, KnuthMorrisPratt, BoyerMoore   *)
(* and the Match result object, run in the order main() calls them.        *)
(* Strings are sequences of char codes; At(s, i) is the C++ s[i].          *)
(***************************************************************************)
EXTENDS Integers, Sequences, FiniteSets, TLC

\* ------------------------------------------------------------------------
\* Program constants
\* ------------------------------------------------------------------------
sigma == 128
pk == 257
delimInAlphabet == CHOOSE c \in {97, 126} : \A d \in {97, 126} : c <= d
delim == 0

\* ------------------------------------------------------------------------
\* Bounds of the model
\* ------------------------------------------------------------------------
\* longest base drawn over the whole alphabet
MaxN == 5
\* longest base drawn as a run of one symbol (long patterns, hash width)
MaxLong == 9
\* longest Hit list handed directly to the Match constructor
MaxHits == 3

\* 'a' and '~': two symbols of the printable alphabet
Alphabet == {97, 126}
\* the symbol of the long runs
HighSym == CHOOSE c \in Alphabet : \A d \in Alphabet : d <= c
\* accuracies (in percent) of the Hits handed directly to the constructor
Accuracies == {50, 100}

\* ------------------------------------------------------------------------
\* long long: 64-bit two's complement, as little-endian 16-bit limbs.
\* The same operators on 6 limbs give exact (unwrapped) values.
\* ------------------------------------------------------------------------
LimbBase == 65536
NLimbs == 4
NExact == NLimbs + 2

Wide(k, L) == [x \in 1..L |-> IF x = 1 THEN k ELSE 0]

RECURSIVE AddFrom(_, _, _, _)
AddFrom(a, b, x, c) ==
    IF x > Len(a) THEN <<>>
    ELSE LET t == a[x] + b[x] + c
         IN  <<t % LimbBase>> \o AddFrom(a, b, x + 1, t \div LimbBase)

\* a + b, wrapping at the width of a
Add(a, b) == AddFrom(a, b, 1, 0)

RECURSIVE MulFrom(_, _, _, _)
MulFrom(a, k, x, c) ==
    IF x > Len(a) THEN <<>>
    ELSE LET t == a[x] * k + c
         IN  <<t % LimbBase>> \o MulFrom(a, k, x + 1, t \div LimbBase)

\* a * k for a small non-negative k, wrapping at the width of a
Mul(a, k) == MulFrom(a, k, 1, 0)

IsNeg(a) == a[Len(a)] >= LimbBase \div 2

Neg(a) == Add([x \in 1..Len(a) |-> LimbBase - 1 - a[x]], Wide(1, Len(a)))

Sub(a, b) == Add(a, Neg(b))

RECURSIVE UDivFrom(_, _, _, _)
UDivFrom(a, k, x, r) ==
    IF x = 0 THEN <<>>
    ELSE LET t == r * LimbBase + a[x]
         IN  UDivFrom(a, k, x - 1, t % k) \o <<t \div k>>

\* signed division by a small positive k, truncating towards zero
Div(a, k) ==
    IF IsNeg(a) THEN Neg(UDivFrom(Neg(a), k, Len(a), 0))
    ELSE UDivFrom(a, k, Len(a), 0)

\* ------------------------------------------------------------------------
\* Strings
\* ------------------------------------------------------------------------
At(s, i) == s[i + 1]

\* std::string::substr(pos, len) for pos + len <= size
Substr(s, pos, len) == SubSeq(s, pos + 1, pos + len)

RECURSIVE Strings(_, _)
Strings(S, len) ==
    IF len = 0 THEN {<<>>}
    ELSE {<<c>> \o t : c \in S, t \in Strings(S, len - 1)}

Run(c, len) == [x \in 1..len |-> c]

SetMax(S) == CHOOSE x \in S : \A y \in S : y <= x

\* ------------------------------------------------------------------------
\* Hit and Match
\* ------------------------------------------------------------------------
\* Hit(s, l, a = 1.0f); the accuracy is kept in percent
Hit(s, l) == [start |-> s, length |-> l, accuracy |-> 100]

\* the comparator handed to sort
HitBefore(a, b) == a.accuracy > b.accuracy

\* std::sort: some permutation ordered by the comparator; the order of
\* equivalent elements is whatever the library produces
StdSort(h) ==
    {g \in {[x \in 1..Len(h) |-> h[f[x]]] : f \in Permutations(1..Len(h))} :
        \A x \in 1..Len(h) : \A y \in 1..Len(h) :
            x < y => ~HitBefore(g[y], g[x])}

\* the Match objects the constructor can build from its arguments
MatchCtor(b, p, h, srt, ind) ==
    {[base |-> b, pattern |-> p, indent |-> ind, sorted |-> srt, hits |-> g] :
        g \in (IF srt THEN StdSort(h) ELSE {h})}

\* return {base, pattern, hits}: sorted = false, indent = 5
Return(b, p, h) == MatchCtor(b, p, h, FALSE, 5)

NoMatch == [base |-> <<>>, pattern |-> <<>>, indent |-> 0, sorted |-> FALSE,
            hits |-> <<>>]

\* ------------------------------------------------------------------------
\* Per-iteration helpers of the four algorithms
\* ------------------------------------------------------------------------
\* KnuthMorrisPratt: the composite string
Composite(b, p) == p \o <<delim>> \o b

\* KnuthMorrisPratt: while (j > 0 && s[i] != s[j]) j = prefix[j-1]
RECURSIVE Fallback(_, _, _, _)
Fallback(s, pre, x, j) ==
    IF j > 0 /\ At(s, x) # At(s, j) THEN Fallback(s, pre, x, At(pre, j - 1))
    ELSE j

\* KnuthMorrisPratt: the start of the Hit recorded at composite index x
KMPStartComposite(x, m) == x - m
KMPStart(x, m) == x - 2 * m

\* BoyerMoore: the bad character shift table (the last assignment wins)
BMTable(p) ==
    LET m == Len(p)
    IN  [c \in 0..(sigma - 1) |->
            LET I == {x \in 0..(m - 2) : At(p, x) = c}
            IN  IF I = {} THEN m ELSE m - SetMax(I) - 1]

\* BoyerMoore: while (i >= 0 and pattern[i] == base[i+shift]) --i
RECURSIVE BMScan(_, _, _, _)
BMScan(b, p, sh, x) ==
    IF x >= 0 /\ At(p, x) = At(b, x + sh) THEN BMScan(b, p, sh, x - 1)
    ELSE x

\* BoyerMoore: (table[badchar] > 1) ? table[badchar] : 1
BMAdvanceStuck(tv) == IF tv > 1 THEN tv ELSE 0
BMAdvance(tv) == IF tv > 1 THEN tv ELSE 1

\* BoyerMoore: the values char badchar = base[idx] can take; a read outside
\* the string yields whatever byte lies there (negative, NUL or printable)
OutsideChars == {-1, 0} \cup Alphabet
BadChars(b, idx) ==
    IF idx \in 0..(Len(b) - 1) THEN {At(b, idx)} ELSE OutsideChars

\* BoyerMoore: the values table[badchar] can take; a read outside the table
\* yields an arbitrary int (every value below 2 advances by 1, every value
\* of at least n leaves the loop)
TableValues(b, p, bc) ==
    IF bc \in 0..(sigma - 1) THEN {BMTable(p)[bc]} ELSE 0..Len(b)

\* RabinKarp: the exact polynomial sum of s[j] * pk^j, by Horner's rule
RECURSIVE PolyHash(_)
PolyHash(s) ==
    IF s = <<>> THEN Wide(0, NExact)
    ELSE Add(Mul(PolyHash(Tail(s)), pk), Wide(Head(s), NExact))

\* a long long equals an exact value
SameValue(h, e) == ~IsNeg(h) /\ h \o Wide(0, NExact - NLimbs) = e

\* RabinKarp: hb = (hb - base[i] + base[i + m] * fmult) / pk
Slide(h, out, in, f) ==
    Div(Add(Sub(h, Wide(out, NLimbs)), Mul(f, in)), pk)

\* ------------------------------------------------------------------------
\* State
\* ------------------------------------------------------------------------
VARIABLES
    base, pattern,      \* the two strings of main()
    pc,                 \* the function (and loop) in progress
    i, hits,            \* loop index and vector<Hit> of the running function
    hp, hb, fmult,      \* RabinKarp: long long accumulators
    prefix,             \* KnuthMorrisPratt: vector<int> prefix(l)
    shift,              \* BoyerMoore: global shift
    bmReads, bmChar,    \* BoyerMoore: indices of base read, and badchar,
                        \* in the last iteration of the outer loop
    iters,              \* BoyerMoore: iterations of the outer loop so far
    naive, rk, kmp, bm, \* the four Match objects of main()
    arg, match          \* Match constructor called directly: its arguments
                        \* and the object built

vars == <<base, pattern, pc, i, hits, hp, hb, fmult, prefix, shift,
          bmReads, bmChar, iters, naive, rk, kmp, bm, arg, match>>

n == Len(base)
m == Len(pattern)

NoArg == [h |-> <<>>, sorted |-> FALSE]

\* base/pattern pairs with 0 < m <= n
SmallInputs ==
    UNION {Strings(Alphabet, N) \X Strings(Alphabet, M) :
              <<N, M>> \in {t \in (1..MaxN) \X (1..MaxN) : t[2] <= t[1]}}
LongInputs ==
    {<<Run(HighSym, N), Run(HighSym, M)>> :
        <<N, M>> \in {t \in ((MaxN + 1)..MaxLong) \X (1..MaxLong) :
                         t[2] <= t[1]}}
Inputs == SmallInputs \cup LongInputs

Init ==
    /\ \E in \in Inputs : base = in[1] /\ pattern = in[2]
    /\ pc = "Naive"
    /\ i = 0
    /\ hits = <<>>
    /\ hp = Wide(0, NLimbs) /\ hb = Wide(0, NLimbs) /\ fmult = Wide(1, NLimbs)
    /\ prefix = <<>>
    /\ shift = 0
    /\ bmReads = {} /\ bmChar = 0 /\ iters = 0
    /\ naive = NoMatch /\ rk = NoMatch /\ kmp = NoMatch /\ bm = NoMatch
    /\ arg = NoArg /\ match = NoMatch

\* ------------------------------------------------------------------------
\* Naive
\* ------------------------------------------------------------------------
NaiveLoop ==
    /\ pc = "Naive"
    /\ i < n - m
    /\ hits' = IF Substr(base, i, m) = pattern
               THEN Append(hits, Hit(i, m)) ELSE hits
    /\ i' = i + 1
    /\ UNCHANGED <<base, pattern, pc, hp, hb, fmult, prefix, shift, bmReads,
                   bmChar, iters, naive, rk, kmp, bm, arg, match>>

\* return of Naive, and entry of RabinKarp
NaiveReturn ==
    /\ pc = "Naive"
    /\ ~(i < n - m)
    /\ naive' \in Return(base, pattern, hits)
    /\ pc' = "RabinKarpPrep"
    /\ i' = 0
    /\ hits' = <<>>
    /\ hp' = Wide(0, NLimbs) /\ hb' = Wide(0, NLimbs)
    /\ fmult' = Wide(1, NLimbs)
    /\ UNCHANGED <<base, pattern, prefix, shift, bmReads, bmChar, iters,
                   rk, kmp, bm, arg, match>>

\* ------------------------------------------------------------------------
\* RabinKarp
\* ------------------------------------------------------------------------
RabinKarpPrep ==
    /\ pc = "RabinKarpPrep"
    /\ i < m
    /\ hp' = Add(hp, Mul(fmult, At(pattern, i)))
    /\ hb' = Add(hb, Mul(fmult, At(base, i)))
    /\ fmult' = Mul(fmult, pk)
    /\ IF i + 1 < m
       THEN i' = i + 1 /\ pc' = pc
       ELSE i' = 0 /\ pc' = "RabinKarpSlide"
    /\ UNCHANGED <<base, pattern, hits, prefix, shift, bmReads, bmChar,
                   iters, naive, rk, kmp, bm, arg, match>>

RabinKarpSlide ==
    /\ pc = "RabinKarpSlide"
    /\ i < n - m
    /\ hits' = IF hb = hp THEN Append(hits, Hit(i, m)) ELSE hits
    /\ hb' = Slide(hb, At(base, i), At(base, i + m), fmult)
    /\ i' = i + 1
    /\ UNCHANGED <<base, pattern, pc, hp, fmult, prefix, shift, bmReads,
                   bmChar, iters, naive, rk, kmp, bm, arg, match>>

\* return of RabinKarp, and entry of KnuthMorrisPratt
RabinKarpReturn ==
    /\ pc = "RabinKarpSlide"
    /\ ~(i < n - m)
    /\ rk' \in Return(base, pattern, hits)
    /\ pc' = "KnuthMorrisPratt"
    /\ i' = 1
    /\ hits' = <<>>
    /\ prefix' = [x \in 1..(m + 1 + n) |-> 0]
    /\ UNCHANGED <<base, pattern, hp, hb, fmult, shift, bmReads, bmChar,
                   iters, naive, kmp, bm, arg, match>>

\* ------------------------------------------------------------------------
\* KnuthMorrisPratt
\* ------------------------------------------------------------------------
KnuthMorrisPrattLoop ==
    /\ pc = "KnuthMorrisPratt"
    /\ i < Len(prefix)
    /\ LET s == Composite(base, pattern)
           j0 == Fallback(s, prefix, i, At(prefix, i - 1))
           j == IF At(s, i) = At(s, j0) THEN j0 + 1 ELSE j0
       IN  /\ prefix' = [prefix EXCEPT ![i + 1] = j]
           /\ hits' = IF j = m THEN Append(hits, Hit(KMPStart(i, m), m))
                      ELSE hits
    /\ i' = i + 1
    /\ UNCHANGED <<base, pattern, pc, hp, hb, fmult, shift, bmReads, bmChar,
                   iters, naive, rk, kmp, bm, arg, match>>

\* return of KnuthMorrisPratt, and entry of BoyerMoore
KnuthMorrisPrattReturn ==
    /\ pc = "KnuthMorrisPratt"
    /\ ~(i < Len(prefix))
    /\ kmp' \in Return(base, pattern, hits)
    /\ pc' = "BoyerMoore"
    /\ hits' = <<>>
    /\ shift' = 0
    /\ bmReads' = {} /\ iters' = 0
    /\ UNCHANGED <<base, pattern, i, hp, hb, fmult, prefix, bmChar, naive,
                   rk, bm, arg, match>>

\* ------------------------------------------------------------------------
\* BoyerMoore
\* ------------------------------------------------------------------------
BoyerMooreLoop ==
    /\ pc = "BoyerMoore"
    /\ shift < n - m
    /\ LET x == BMScan(base, pattern, shift, m - 1)
       IN  /\ hits' = IF x = -1 THEN Append(hits, Hit(shift, m)) ELSE hits
           /\ bmReads' = {k + shift : k \in (IF x < 0 THEN 0 ELSE x)..(m - 1)}
                            \cup {x + shift}
           /\ \E bc \in BadChars(base, x + shift) :
                 /\ bmChar' = bc
                 /\ \E tv \in TableValues(base, pattern, bc) :
                       shift' = shift + BMAdvance(tv)
    /\ iters' = iters + 1
    /\ UNCHANGED <<base, pattern, pc, i, hp, hb, fmult, prefix, naive, rk,
                   kmp, bm, arg, match>>

BoyerMooreReturn ==
    /\ pc = "BoyerMoore"
    /\ ~(shift < n - m)
    /\ bm' \in Return(base, pattern, hits)
    /\ pc' = "Done"
    /\ UNCHANGED <<base, pattern, i, hits, hp, hb, fmult, prefix, shift,
                   bmReads, bmChar, iters, naive, rk, kmp, arg, match>>

Next ==
    \/ NaiveLoop
    \/ NaiveReturn
    \/ RabinKarpPrep
    \/ RabinKarpSlide
    \/ RabinKarpReturn
    \/ KnuthMorrisPrattLoop
    \/ KnuthMorrisPrattReturn
    \/ BoyerMooreLoop
    \/ BoyerMooreReturn

Spec == Init /\ [][Next]_vars

\* ------------------------------------------------------------------------
\* The Match constructor on its own: any Hit list, either sort flag
\* ------------------------------------------------------------------------
HitLists ==
    UNION {Strings([start : 0..(MaxHits - 1), length : {1},
                    accuracy : Accuracies], L) : L \in 0..MaxHits}

InitMatch ==
    /\ base = <<HighSym>> /\ pattern = <<HighSym>>
    /\ pc = "Ctor"
    /\ arg \in [h : HitLists, sorted : BOOLEAN]
    /\ match = NoMatch
    /\ i = 0
    /\ hits = <<>>
    /\ hp = Wide(0, NLimbs) /\ hb = Wide(0, NLimbs) /\ fmult = Wide(1, NLimbs)
    /\ prefix = <<>>
    /\ shift = 0
    /\ bmReads = {} /\ bmChar = 0 /\ iters = 0
    /\ naive = NoMatch /\ rk = NoMatch /\ kmp = NoMatch /\ bm = NoMatch

Construct ==
    /\ pc = "Ctor"
    /\ match' \in MatchCtor(base, pattern, arg.h, arg.sorted, 5)
    /\ pc' = "Built"
    /\ UNCHANGED <<base, pattern, i, hits, hp, hb, fmult, prefix, shift,
                   bmReads, bmChar, iters, naive, rk, kmp, bm, arg>>

NextMatch == Construct

SpecMatch == InitMatch /\ [][NextMatch]_vars

\* ------------------------------------------------------------------------
\* Vocabulary of the properties
\* ------------------------------------------------------------------------
Starts(h) == {h[x].start : x \in 1..Len(h)}

\* the pattern occurs in base at offset s
Occurs(s) == s + m <= n /\ Substr(base, s, m) = pattern

\* every offset at which the pattern occurs
Occurrences == {s \in 0..(n - m) : Occurs(s)}

\* the offsets Naive's loop visits
Scanned == 0..(n - m - 1)

Increasing(h) == \A x \in 1..Len(h) : \A y \in 1..Len(h) :
                    x < y => h[x].start < h[y].start

\* the polynomial hash as a long long (wrapping)
RECURSIVE Hash64(_)
Hash64(s) ==
    IF s = <<>> THEN Wide(0, NLimbs)
    ELSE Add(Mul(Hash64(Tail(s)), pk), Wide(Head(s), NLimbs))

\* the list ordered by descending accuracy, ties in input order
RECURSIVE StableByAccuracy(_, _)
StableByAccuracy(h, A) ==
    IF A = {} THEN <<>>
    ELSE LET a == SetMax(A)
             Is(x) == x.accuracy = a
         IN  SelectSeq(h, Is) \o StableByAccuracy(h, A \ {a})

\* ------------------------------------------------------------------------
\* Properties
\* ------------------------------------------------------------------------

\* C1: when all four functions have returned, Naive, KnuthMorrisPratt and
\* BoyerMoore have returned the same set of Hit start offsets.
C1_SameStarts ==
    pc = "Done" =>
        /\ Starts(naive.hits) = Starts(kmp.hits)
        /\ Starts(kmp.hits) = Starts(bm.hits)

\* C2: BoyerMoore never skips an occurrence Naive reports: while it runs,
\* every occurrence at a scanned offset the window has moved past is
\* recorded, and on return its starts are exactly the occurrences at the
\* offsets 0..n-m-1, the ones Naive has returned.
C2_BoyerMooreIsNaive ==
    /\ pc = "BoyerMoore" =>
          \A s \in Scanned : (Occurs(s) /\ s < shift) => s \in Starts(hits)
    /\ pc = "Done" =>
          /\ Starts(bm.hits) = {s \in Scanned : Occurs(s)}
          /\ Starts(bm.hits) = Starts(naive.hits)

\* C3: the starts RabinKarp has returned include every start Naive has
\* returned, and every extra start is a window that differs from the
\* pattern while its hash equals the pattern's.
C3_RabinKarpSuperset ==
    pc = "Done" =>
        /\ Starts(naive.hits) \subseteq Starts(rk.hits)
        /\ \A s \in Starts(rk.hits) \ Starts(naive.hits) :
              /\ ~Occurs(s)
              /\ Hash64(Substr(base, s, m)) = Hash64(pattern)

\* C4: for base "aaaa" and pattern "aa" each of the four functions returns
\* Hits at exactly the starts 0, 1 and 2.
C4_Overlapping ==
    (pc = "Done" /\ base = <<97, 97, 97, 97>> /\ pattern = <<97, 97>>) =>
        /\ Starts(naive.hits) = {0, 1, 2}
        /\ Starts(rk.hits) = {0, 1, 2}
        /\ Starts(kmp.hits) = {0, 1, 2}
        /\ Starts(bm.hits) = {0, 1, 2}

HitInRange(h) ==
    /\ 0 <= h.start /\ h.start <= n - m
    /\ h.length = m
    /\ h.accuracy = 100
    /\ h.start + h.length <= n

\* C5: every Hit, in the vector a running function is filling and in each
\* Match returned, has 0 <= start <= n-m, length m and accuracy 1.0, so
\* that its range lies within the base.
C5_HitsInRange ==
    \A hs \in {hits, naive.hits, rk.hits, kmp.hits, bm.hits} :
        \A x \in 1..Len(hs) : HitInRange(hs[x])

\* all four have returned Hits, one of them at the last offset n-m
C5_Witness ==
    /\ pc = "Done"
    /\ naive.hits # <<>> /\ rk.hits # <<>> /\ bm.hits # <<>>
    /\ (n - m) \in Starts(kmp.hits)
    /\ m >= 2

\* C6: the constructor called with the sort flag stores the Hits by
\* descending accuracy with Hits of equal accuracy in their input order;
\* called without it, it stores the input list unchanged.
C6_StableSort ==
    pc = "Built" =>
        IF arg.sorted
        THEN match.hits = StableByAccuracy(arg.h, Accuracies)
        ELSE match.hits = arg.h

\* C7: in KnuthMorrisPratt no prefix length exceeds m, the Hits recorded
\* so far are exactly the occurrences that end before composite index i
\* (start s = index - 2m, 0 <= s <= n-m), each once, and the Hits returned
\* are exactly the occurrences of the pattern, the last offset n-m included.
C7_KnuthMorrisPrattExact ==
    /\ \A x \in 1..Len(prefix) : prefix[x] <= m
    /\ pc = "KnuthMorrisPratt" =>
          /\ Starts(hits) = {s \in Occurrences : s + 2 * m < i}
          /\ Increasing(hits)
    /\ pc \in {"BoyerMoore", "Done"} =>
          /\ Starts(kmp.hits) = Occurrences
          /\ Increasing(kmp.hits)

\* KnuthMorrisPratt has returned an occurrence at the last offset, and the
\* base begins with a proper suffix of the pattern's shape: the pattern's
\* first symbol ends the pattern and starts the base.
C7_Witness ==
    /\ pc = "Done"
    /\ (n - m) \in Starts(kmp.hits)
    /\ m >= 2
    /\ At(base, 0) = At(pattern, 0)
    /\ 0 \notin Starts(kmp.hits)

\* C8: at the start of every slide iteration of RabinKarp hb is the exact
\* polynomial hash of the window at i and hp the exact polynomial hash of
\* the pattern.
C8_RollingHash ==
    (pc = "RabinKarpSlide" /\ i < n - m) =>
        /\ SameValue(hb, PolyHash(Substr(base, i, m)))
        /\ SameValue(hp, PolyHash(pattern))

\* C9: every index of base that BoyerMoore reads lies in [0, n) and every
\* index of the shift table in [0, sigma).
C9_BoyerMooreInRange ==
    (pc \in {"BoyerMoore", "Done"} /\ iters > 0) =>
        /\ bmReads \subseteq 0..(n - 1)
        /\ bmChar \in 0..(sigma - 1)

C10_State ==
    pc \in {"BoyerMoore", "Done"} =>
        /\ iters <= n - m
        /\ iters <= shift
        /\ Increasing(hits)
        /\ Increasing(bm.hits)

C10_Step ==
    (pc = "BoyerMoore" /\ iters' = iters + 1) =>
        /\ shift' >= shift + 1
        /\ bmChar' \in 0..(sigma - 1) =>
              shift' = shift + (IF BMTable(pattern)[bmChar'] > 1
                                THEN BMTable(pattern)[bmChar'] ELSE 1)

\* C10: every iteration of BoyerMoore's outer loop increases shift by at
\* least 1 (by the table value when that exceeds 1, else by 1), the loop
\* runs at most n-m times and the Hit starts are strictly increasing.
C10_BoyerMooreProgress ==
    /\ []C10_State
    /\ [][C10_Step]_vars

\* BoyerMoore has returned after matching and mismatching windows
C10_Witness ==
    /\ pc = "Done"
    /\ iters >= 2
    /\ bm.hits # <<>>
    /\ Len(bm.hits) < iters

====
